---------------------------- MODULE Spec2Model ----------------------------
(***************************************************************************)
(* A model of spica: the VPC resource graph (src/src/vpc.py), the resource *)
(* variants (src/src/service.py) and the Graphviz layout and edge routing  *)
(* (src/src/outputs/graphviz.py).                                          *)
(*                                                                         *)
(* Python strings are sequences of one-character strings, so that the      *)
(* string functions of the program (startswith, split, translate, the      *)
(* comparison used by sorted) are computed and not assumed.  Type tags     *)
(* (service_name) and attribute words are kept as TLA+ strings where the   *)
(* program only tests them for equality.                                   *)
(***************************************************************************)
EXTENDS Integers, Sequences, FiniteSets, Bags, TLC

\* ------------------------------------------------------------------------
\* Python values

\* None: a value different from every string, the empty string included.
None == <<"None">>

\* The characters the model uses, in code point order.
Chars == <<" ", "\"", "-", ".", "/",
           "0", "1", "2", "3", "4", "5", "6", "7", "8", "9",
           ":", "=", ">",
           "A", "B", "C", "D", "E", "F", "G", "H", "I", "J", "K", "L", "M",
           "N", "O", "P", "Q", "R", "S", "T", "U", "V", "W", "X", "Y", "Z",
           "[", "\\", "]", "_",
           "a", "b", "c", "d", "e", "f", "g", "h", "i", "j", "k", "l", "m",
           "n", "o", "p", "q", "r", "s", "t", "u", "v", "w", "x", "y", "z">>

CharSet == {Chars[i] : i \in 1..Len(Chars)}

\* ord(c), up to an order-preserving renumbering.
Ord == [c \in CharSet |-> CHOOSE i \in 1..Len(Chars) : Chars[i] = c]

\* The order of Python's list and tuple comparison over a sequence of
\* comparable items: the first differing position decides, a proper prefix
\* is smaller.
RECURSIVE SeqLess(_, _, _)
SeqLess(ItemLess(_, _), s, t) ==
    IF t = <<>> THEN FALSE
    ELSE IF s = <<>> THEN TRUE
    ELSE IF Head(s) = Head(t) THEN SeqLess(ItemLess, Tail(s), Tail(t))
    ELSE ItemLess(Head(s), Head(t))

\* str.__lt__
StrLess(s, t) == SeqLess(LAMBDA a, b : Ord[a] < Ord[b], s, t)

\* s.startswith(p)
StartsWith(s, p) == Len(s) >= Len(p) /\ SubSeq(s, 1, Len(p)) = p

\* s.split(sep), sep a single character
Split(s, sep) ==
    LET RECURSIVE go(_, _, _)
        go(i, cur, acc) ==
            IF i > Len(s) THEN Append(acc, cur)
            ELSE IF s[i] = sep THEN go(i + 1, <<>>, Append(acc, cur))
            ELSE go(i + 1, Append(cur, s[i]), acc)
    IN go(1, <<>>, <<>>)

\* s.split(sep, maxsplit=1)
SplitOnce(s, sep) ==
    LET hits == {i \in 1..Len(s) : s[i] = sep}
    IN IF hits = {} THEN <<s>>
       ELSE LET i == CHOOSE j \in hits : \A k \in hits : j <= k
            IN <<SubSeq(s, 1, i - 1), SubSeq(s, i + 1, Len(s))>>

\* sep in s
HasChar(s, sep) == \E i \in 1..Len(s) : s[i] = sep

\* int(s) for a string of decimal digits
RECURSIVE ToInt(_)
ToInt(s) ==
    IF s = <<>> THEN 0
    ELSE 10 * ToInt(SubSeq(s, 1, Len(s) - 1)) + (Ord[s[Len(s)]] - Ord["0"])

\* Concatenation of a sequence of strings.
RECURSIVE Concat(_)
Concat(ss) == IF ss = <<>> THEN <<>> ELSE Head(ss) \o Concat(Tail(ss))

\* sep.join(ss)
RECURSIVE Join(_, _)
Join(sep, ss) ==
    IF ss = <<>> THEN <<>>
    ELSE IF Len(ss) = 1 THEN Head(ss)
    ELSE Head(ss) \o sep \o Join(sep, Tail(ss))

RECURSIVE FoldSeq(_, _, _)
FoldSeq(Op(_, _), acc, s) ==
    IF s = <<>> THEN acc ELSE FoldSeq(Op, Op(acc, Head(s)), Tail(s))

\* [x for x in s if Keep(x)]
RECURSIVE FilterSeq(_, _)
FilterSeq(Keep(_), s) ==
    IF s = <<>> THEN <<>>
    ELSE IF Keep(Head(s)) THEN <<Head(s)>> \o FilterSeq(Keep, Tail(s))
    ELSE FilterSeq(Keep, Tail(s))

Range(s) == {s[i] : i \in 1..Len(s)}

\* Counter: the number of occurrences of x in the list s.
Count(s, x) == Cardinality({i \in 1..Len(s) : s[i] = x})

\* sorted(s, key=...): stable, Less compares the keys.
RECURSIVE InsertSorted(_, _, _)
InsertSorted(Less(_, _), sorted, x) ==
    IF sorted = <<>> THEN <<x>>
    ELSE IF Less(x, Head(sorted)) THEN <<x>> \o sorted
    ELSE <<Head(sorted)>> \o InsertSorted(Less, Tail(sorted), x)

Sorted(Less(_, _), s) ==
    FoldSeq(LAMBDA acc, x : InsertSorted(Less, acc, x), <<>>, s)

\* sorted(S) for a set S of distinct items.
RECURSIVE SortedSet(_, _)
SortedSet(Less(_, _), S) ==
    IF S = {} THEN <<>>
    ELSE LET m == CHOOSE x \in S : \A y \in S \ {x} : Less(x, y)
         IN <<m>> \o SortedSet(Less, S \ {m})

\* ------------------------------------------------------------------------
\* src/src/utils.py

parse_arn(arn) ==
    LET elements == Split(arn, ":")
        tail == SplitOnce(elements[6], "/")
    IN IF Len(elements) = 7
       THEN [resourcetype |-> elements[6], resource |-> elements[7]]
       ELSE IF ~HasChar(elements[6], "/")
       THEN [resourcetype |-> None, resource |-> elements[6]]
       ELSE [resourcetype |-> tail[1], resource |-> tail[2]]

\* ------------------------------------------------------------------------
\* src/src/service.py

\* ServiceInstance(details, service_name, instance_name) and its variants.
\* The variant (class) is fixed by service_name in every constructor call of
\* vpc.py.  details keeps the fields the properties read: dname is the
\* variant's own name field (name, Name, FunctionName, LoadBalancerName,
\* GroupName, TargetGroupName, ServiceName), tag the value of the Name tag,
\* target_type the TargetType of a target group.
NoDetails ==
    [dname |-> None, tag |-> None, public_ip |-> None, private_ip |-> None,
     cidr |-> None, map_public |-> FALSE, target_type |-> ""]

ServiceInstance(details, service_name, instance_name, instance_type) ==
    [details |-> details, service_name |-> service_name,
     instance_name |-> instance_name, instance_type |-> instance_type]

\* COST_PER_TYPE of EC2Instance, in 1/10000 dollar per hour.
EC2_COST_PER_TYPE ==
    [x \in {"m3.medium", "m4.2xlarge", "m5.large", "t2.2xlarge", "t2.large",
            "t2.medium", "t2.micro", "t2.small", "t2.xlarge", "t3.small",
            "t3a.large", "t3a.xlarge"} |->
        CASE x = "m3.medium" -> 670 [] x = "m4.2xlarge" -> 4000
          [] x = "m5.large" -> 960 [] x = "t2.2xlarge" -> 3712
          [] x = "t2.large" -> 928 [] x = "t2.medium" -> 464
          [] x = "t2.micro" -> 116 [] x = "t2.small" -> 230
          [] x = "t2.xlarge" -> 1856 [] x = "t3.small" -> 208
          [] x = "t3a.large" -> 752 [] x = "t3a.xlarge" -> 1504]

\* COST_PER_TYPE of RdsInstance, in 1/10000 dollar per hour.
RDS_COST_PER_TYPE ==
    [x \in {"db.m3.2xlarge", "db.m5.2xlarge", "db.m5.xl", "db.m5.xlarge",
            "db.r5.large", "db.r5.xl", "db.r5.xlarge", "db.t2.medium",
            "db.t2.micro", "db.t2.small", "db.t3.medium", "db.t3.small"} |->
        CASE x = "db.m3.2xlarge" -> 15500 [] x = "db.m5.2xlarge" -> 7120
          [] x = "db.m5.xl" -> 3560 [] x = "db.m5.xlarge" -> 3420
          [] x = "db.r5.large" -> 2500 [] x = "db.r5.xl" -> 5000
          [] x = "db.r5.xlarge" -> 4800 [] x = "db.t2.medium" -> 730
          [] x = "db.t2.micro" -> 170 [] x = "db.t2.small" -> 360
          [] x = "db.t3.medium" -> 720 [] x = "db.t3.small" -> 360]

\* dict.get(key, 0.00)
GetOr0(table, k) == IF k \in DOMAIN table THEN table[k] ELSE 0

\* cost_per_month, in 1/10000 dollar.
cost_per_month(svc) ==
    CASE svc.service_name = "EC2" ->
            GetOr0(EC2_COST_PER_TYPE, svc.instance_type) * 24 * 30
      [] svc.service_name = "RDS" ->
            GetOr0(RDS_COST_PER_TYPE, svc.instance_type) * 24 * 30
      [] svc.service_name \in {"ELBv1", "ELBv2"} -> 250 * 24 * 30
      [] svc.service_name = "NAT" -> 450 * 24 * 30
      [] svc.service_name = "ENI" ->
            IF svc.details.public_ip # None /\ svc.details.public_ip # <<>>
            THEN 50 * 24 * 30 ELSE 0
      [] OTHER -> 0

\* type_info: the instance type of the EC2 and RDS variants, TargetType of
\* a target group, VpcEndpointType of an endpoint, "" of the others.
type_info(svc) ==
    CASE svc.service_name \in {"EC2", "RDS"} -> svc.instance_type
      [] svc.service_name = "TG" -> svc.details.target_type
      [] svc.service_name = "EPT-I" -> "Interface"
      [] svc.service_name = "EPT-GW" -> "Gateway"
      [] svc.service_name = "EPT-GWLB" -> "GatewayLoadBalancer"
      [] OTHER -> ""

\* __str__: the three parts of "service_name - instance_name - type_info".
__str__(svc) == <<svc.service_name, svc.instance_name, type_info(svc)>>

\* hash(svc).  ServiceInstance.__hash__ is the hash of str(self), written
\* here as that string.  EC2Instance and RdsInstance are dataclasses of
\* their own that define no __hash__: @dataclass (eq=True) sets their
\* __hash__ to None, and hash() raises TypeError.
__hash__(svc) ==
    IF svc.service_name \in {"EC2", "RDS"}
    THEN [exc |-> "TypeError", value |-> <<>>]
    ELSE [exc |-> "", value |-> __str__(svc)]

\* self == other.  ServiceInstance.__eq__ compares service_name and
\* instance_name.  @dataclass gives EC2Instance and RdsInstance, which
\* define no __eq__ in their body, a generated one: the tuples of all the
\* fields of two objects of the same class, NotImplemented (and so False,
\* by the other side's answer) for another class.
__eq__(self, other) ==
    IF self.service_name \in {"EC2", "RDS"}
    THEN /\ other.service_name = self.service_name
         /\ self.details = other.details
         /\ self.instance_name = other.instance_name
         /\ self.instance_type = other.instance_type
    ELSE /\ self.service_name = other.service_name
         /\ self.instance_name = other.instance_name

\* The id property: an ARN is shortened to its resource element.
id(svc) ==
    IF StartsWith(svc.instance_name, <<"a", "r", "n">>)
    THEN parse_arn(svc.instance_name).resource
    ELSE svc.instance_name

\* The \n that label puts between its parts (a backslash and an n).
NL == <<"\\", "n">>

\* ServiceInstance.label
base_label(svc) ==
    IF svc.details.tag # None
    THEN svc.instance_name \o NL \o svc.details.tag
    ELSE svc.instance_name

\* ServiceInstance.name
name(svc) ==
    IF StartsWith(svc.instance_name, <<"a", "r", "n">>)
    THEN parse_arn(svc.instance_name).resource
    ELSE IF svc.details.tag # None THEN svc.details.tag
    ELSE svc.instance_name

\* NetworkInterface.address
address(svc) ==
    IF svc.details.public_ip # None /\ svc.details.public_ip # <<>>
    THEN svc.details.public_ip
    ELSE IF svc.details.private_ip # None /\ svc.details.private_ip # <<>>
    THEN svc.details.private_ip
    ELSE None

\* TargetGroup.name
tg_name(svc) ==
    IF svc.details.tag # None THEN svc.details.tag ELSE svc.details.dname

\* The label property of each variant.
label(svc) ==
    CASE svc.service_name \in {"EKS", "HZ", "Lambda", "ELBv1", "ELBv2", "SG",
                               "EPT-I", "EPT-GW", "EPT-GWLB"} ->
            svc.details.dname
      [] svc.service_name = "TG" -> tg_name(svc)
      [] svc.service_name = "ENI" ->
            IF address(svc) # None
            THEN base_label(svc) \o NL \o address(svc)
            ELSE base_label(svc)
      [] OTHER -> base_label(svc)

\* ------------------------------------------------------------------------
\* src/src/outputs/graphviz.py: tables

TOP_SVC == <<"ASG", "ELBv1", "ELBv2", "EPT-GWLB", "VPGW", "TG", "EKS",
             "Lambda", "EPT-I">>
SUBNET_SVC == <<"EC2", "ENI", "NAT">>
BOTTOM_SVC == <<"RDS">>
NW_SVC == <<"ACL", "EPT-GW", "IGW", "RTB", "PEER", "SG">>

LEVELS == <<
    <<"R53">>, <<"HZ">>, <<"VPC">>, <<"VPGW">>, <<"EPT-GWLB">>, <<"ACL">>,
    <<"ASG">>, <<"ELBv1", "ELBv2">>, <<"TG">>, <<"EKS">>, <<"Lambda">>,
    <<"EPT-I">>, <<"SUBN">>, <<"EC2", "NAT">>, <<"ENI">>, <<"RDS">>,
    <<"RTB">>, <<"SG">>, <<"EPT-GW", "PEER", "IGW">> >>

NETWORK == <<"ACL", "ELBv1", "ELBv2", "ENI", "EPT-I", "EPT-GWLB", "HZ",
             "IGW", "NAT", "PEER", "RTB", "SG", "TG", "VPGW">>
STORAGE == <<"EPT-GW", "RDS">>
COMPUTE == <<"ASG", "EC2", "Lambda", "EKS">>

\* The type tags, as the strings sorted() compares.
TagChars ==
    [t \in {"ACL", "ASG", "EC2", "EKS", "ELBv1", "ELBv2", "ENI", "EPT-I",
            "EPT-GW", "EPT-GWLB", "HZ", "IGW", "Lambda", "NAT", "PEER",
            "RDS", "RTB", "SG", "SUBN", "TG", "VPGW"} |->
        CASE t = "ACL" -> <<"A","C","L">>
          [] t = "ASG" -> <<"A","S","G">>
          [] t = "EC2" -> <<"E","C","2">>
          [] t = "EKS" -> <<"E","K","S">>
          [] t = "ELBv1" -> <<"E","L","B","v","1">>
          [] t = "ELBv2" -> <<"E","L","B","v","2">>
          [] t = "ENI" -> <<"E","N","I">>
          [] t = "EPT-I" -> <<"E","P","T","-","I">>
          [] t = "EPT-GW" -> <<"E","P","T","-","G","W">>
          [] t = "EPT-GWLB" -> <<"E","P","T","-","G","W","L","B">>
          [] t = "HZ" -> <<"H","Z">>
          [] t = "IGW" -> <<"I","G","W">>
          [] t = "Lambda" -> <<"L","a","m","b","d","a">>
          [] t = "NAT" -> <<"N","A","T">>
          [] t = "PEER" -> <<"P","E","E","R">>
          [] t = "RDS" -> <<"R","D","S">>
          [] t = "RTB" -> <<"R","T","B">>
          [] t = "SG" -> <<"S","G">>
          [] t = "SUBN" -> <<"S","U","B","N">>
          [] t = "TG" -> <<"T","G">>
          [] t = "VPGW" -> <<"V","P","G","W">>]

\* level() answers None for a type no level lists; the model writes it -1.
NoLevel == -1

\* level(service_name): the index of the first level that lists the type,
\* None (NoLevel) when no level does.
level(service_name) ==
    LET hits == {l \in 1..Len(LEVELS) : service_name \in Range(LEVELS[l])}
    IN IF hits = {} THEN NoLevel
       ELSE (CHOOSE l \in hits : \A m \in hits : l <= m) - 1

\* graphviz_color(service)
graphviz_color(service) ==
    IF service \in Range(NETWORK) THEN <<"p","u","r","p","l","e","3">>
    ELSE IF service \in Range(STORAGE) THEN <<"b","l","u","e">>
    ELSE <<"o","r","a","n","g","e">>

\* graphviz_id, had REPLACE_TABLE mapped the period to an underscore too.
RECURSIVE graphviz_id_dot(_)
graphviz_id_dot(s) ==
    IF s = <<>> THEN <<>>
    ELSE (IF Head(s) \in {" ", "-", "/", "."} THEN <<"_">> ELSE <<Head(s)>>)
            \o graphviz_id_dot(Tail(s))

\* s.translate(REPLACE_TABLE): space, hyphen and slash become an
\* underscore, a period is deleted.
RECURSIVE graphviz_id(_)
graphviz_id(s) ==
    IF s = <<>> THEN <<>>
    ELSE LET c == Head(s)
             r == IF c \in {" ", "-", "/"} THEN <<"_">>
                  ELSE IF c = "." THEN <<>>
                  ELSE <<c>>
         IN r \o graphviz_id(Tail(s))

\* graphviz_icon(service, instance_type): the icon of the MAP table, None
\* for a type the table does not list.
graphviz_icon(service) ==
    CASE service = "ACL" -> "../icons/ACL.png"
      [] service = "ASG" -> "../icons/ASG.png"
      [] service = "EC2" -> "../icons/EC2.png"
      [] service = "EKS" -> "../icons/EKS.png"
      [] service = "ELBv1" -> "../icons/LB.png"
      [] service = "ELBv2" -> "../icons/ALB.png"
      [] service = "ENI" -> "../icons/ENI.png"
      [] service = "EPT-I" -> "../icons/EPT-I.png"
      [] service = "EPT-GW" -> "../icons/EPT-GW.png"
      [] service = "EPT-GWLB" -> "../icons/EPT-GWLB.png"
      [] service = "HZ" -> "../icons/HZ.png"
      [] service = "IGW" -> "../icons/IGW.png"
      [] service = "Lambda" -> "../icons/Lambda.png"
      [] service = "NAT" -> "../icons/NAT.png"
      [] service = "PEER" -> "../icons/vpc-peering.png"
      [] service = "RDS" -> "../icons/RDS.png"
      [] service = "RTB" -> "../icons/RouteTable.png"
      [] service = "SG" -> "../icons/SG.png"
      [] service = "TG" -> "../icons/TG.png"
      [] service = "VPGW" -> "../icons/VPNGW.png"
      [] OTHER -> "None"

\* node(svc): the node statement  <id> [label="..." image="..."]
node(svc) ==
    [id |-> graphviz_id(id(svc)), label |-> label(svc),
     image |-> graphviz_icon(svc.service_name)]

\* ------------------------------------------------------------------------
\* src/src/vpc.py

\* AvailabilityZone(): two empty lists.
AvailabilityZone == [service_ids |-> <<>>, subnet_ids |-> <<>>]

\* Relation, had it been a pair without direction (the two ids in order).
Relation_unordered(source, target) ==
    IF StrLess(target, source) THEN <<target, source>> ELSE <<source, target>>

\* Relation(source, target), a namedtuple.
Relation(source, target) == <<source, target>>

\* VPC.__init__.  _services is a dict: a list of (key, value) entries in
\* insertion order.  azs and subnets are defaultdicts, functions whose
\* domain is the set of keys made so far.  exc is the exception that ended
\* the scan ("" while none has), log the bag of the argument pairs of the
\* calls of _add_relation made so far (a history of the run, read by no
\* operation).
NewVPC ==
    [_services |-> <<>>, relations |-> {}, azs |-> <<>>, subnets |-> <<>>,
     exc |-> "", log |-> EmptyBag]

\* The keys of _services, in insertion order.
Keys(v) == [i \in 1..Len(v._services) |-> v._services[i].key]

\* VPC.__contains__
Contains(v, key) == \E i \in 1..Len(v._services) : v._services[i].key = key

\* VPC.__getitem__: _services.get(key, None)
GetItem(v, key) ==
    IF Contains(v, key)
    THEN v._services[CHOOSE i \in 1..Len(v._services) :
                         v._services[i].key = key].svc
    ELSE None

\* VPC.services: the values of _services, in insertion order.
services(v) == [i \in 1..Len(v._services) |-> v._services[i].svc]

\* self._services[key] = svc: a key already present keeps its place.
SetService(v, key, svc) ==
    IF Contains(v, key)
    THEN [v EXCEPT !._services =
            [i \in 1..Len(@) |->
                IF @[i].key = key THEN [key |-> key, svc |-> svc] ELSE @[i]]]
    ELSE [v EXCEPT !._services = Append(@, [key |-> key, svc |-> svc])]

\* self.azs[az].service_ids.append(_id)
AzAddService(v, az, _id) ==
    IF az \in DOMAIN v.azs
    THEN [v EXCEPT !.azs[az].service_ids = Append(@, _id)]
    ELSE [v EXCEPT !.azs =
            @ @@ (az :> [AvailabilityZone EXCEPT !.service_ids = <<_id>>])]

\* self.azs[az].subnet_ids.append(_id)
AzAddSubnet(v, az, _id) ==
    IF az \in DOMAIN v.azs
    THEN [v EXCEPT !.azs[az].subnet_ids = Append(@, _id)]
    ELSE [v EXCEPT !.azs =
            @ @@ (az :> [AvailabilityZone EXCEPT !.subnet_ids = <<_id>>])]

\* self.subnets[sn].append(_id)
SubnetAdd(v, sn, _id) ==
    IF sn \in DOMAIN v.subnets
    THEN [v EXCEPT !.subnets[sn] = Append(@, _id)]
    ELSE [v EXCEPT !.subnets = @ @@ (sn :> <<_id>>)]

\* _add_relation, had it stored only the relations between resources the
\* resource map already holds.
_add_relation_known(v, src, trg) ==
    LET logged == [v EXCEPT !.log = @ (+) SetToBag({<<src, trg>>})]
    IN IF src = None \/ trg = None \/ ~Contains(v, src) \/ ~Contains(v, trg)
       THEN logged
       ELSE [logged EXCEPT !.relations = @ \cup {<<src, trg>>}]

\* _add_relation, had it dropped an empty string as it drops None
\* (if not src or not trg).
_add_relation_falsy(v, src, trg) ==
    LET logged == [v EXCEPT !.log = @ (+) SetToBag({<<src, trg>>})]
    IN IF src = None \/ trg = None \/ src = <<>> \/ trg = <<>>
       THEN logged
       ELSE [logged EXCEPT !.relations = @ \cup {<<src, trg>>}]

\* VPC._add_relation
_add_relation(v, src, trg) ==
    LET logged == [v EXCEPT !.log = @ (+) SetToBag({<<src, trg>>})]
    IN IF src = None \/ trg = None
       THEN logged
       ELSE [logged EXCEPT !.relations = @ \cup {Relation(src, trg)}]

\* for x in xs: self._add_relation(_id, x)
RelationsFrom(v, _id, xs) ==
    FoldSeq(LAMBDA a, x : _add_relation(a, _id, x), v, xs)

\* for sn in sns: self.subnets[sn].append(_id)
SubnetsAdd(v, sns, _id) ==
    FoldSeq(LAMBDA a, sn : SubnetAdd(a, sn, _id), v, sns)

\* for az in azs: self.azs[az].service_ids.append(_id)
AzsAddService(v, zones, _id) ==
    FoldSeq(LAMBDA a, az : AzAddService(a, az, _id), v, zones)

\* A describe_* method runs its loop body on each item of the response; an
\* exception ends the method and the scan.
Each(Body(_, _), v, response) ==
    FoldSeq(LAMBDA a, x : IF a.exc # "" THEN a ELSE Body(a, x), v, response)

\* describe_asgs, one auto scaling group.  asg.in_vpc is what asg_in_vpc
\* answers for it.
describe_asg(v, asg) ==
    IF ~asg.in_vpc THEN v
    ELSE LET _id == asg.AutoScalingGroupName
             v1 == SetService(v, _id,
                       ServiceInstance(NoDetails, "ASG", _id, ""))
             v2 == RelationsFrom(v1, _id, asg.LoadBalancerNames)
             v3 == RelationsFrom(v2, _id, asg.Instances)
         IN AzsAddService(v3, asg.AvailabilityZones, _id)

describe_asgs(v, response) == Each(describe_asg, v, response)

\* describe_ec2s, one instance.
describe_ec2(v, ec2) ==
    LET _id == ec2.InstanceId
        v1 == SetService(v, _id,
                  ServiceInstance(NoDetails, "EC2", _id, ec2.InstanceType))
        v2 == RelationsFrom(v1, _id, ec2.NetworkInterfaces)
        v3 == RelationsFrom(v2, _id, ec2.SecurityGroups)
        v4 == SubnetAdd(v3, ec2.SubnetId, _id)
    IN AzAddService(v4, ec2.AvailabilityZone, _id)

describe_ec2s(v, response) == Each(describe_ec2, v, response)

\* describe_ekss, one cluster.
describe_eks(v, eks) ==
    IF ~eks.in_vpc THEN v
    ELSE LET _id == eks.arn
             v1 == SetService(v, _id,
                       ServiceInstance([NoDetails EXCEPT !.dname = eks.name],
                                       "EKS", _id, ""))
             v2 == SubnetsAdd(v1, eks.subnetIds, _id)
         IN RelationsFrom(v2, _id, eks.securityGroupIds)

describe_ekss(v, response) == Each(describe_eks, v, response)

\* describe_elbs, one classic load balancer.
describe_elb(v, elb) ==
    IF ~elb.in_vpc THEN v
    ELSE LET _id == elb.LoadBalancerName
             v1 == SetService(v, _id,
                       ServiceInstance([NoDetails EXCEPT !.dname = _id],
                                       "ELBv1", _id, ""))
             v2 == SubnetsAdd(v1, elb.Subnets, _id)
             v3 == RelationsFrom(v2, _id, elb.SecurityGroups)
             v4 == RelationsFrom(v3, _id, elb.Instances)
         IN AzsAddService(v4, elb.AvailabilityZones, _id)

describe_elbs(v, response) == Each(describe_elb, v, response)

\* describe_elbsV2, one target group of a load balancer.
describe_tg(v, _id, tg) ==
    IF ~tg.in_vpc THEN v
    ELSE LET _tg_id == tg.TargetGroupArn
             v1 == SetService(v, _tg_id,
                       ServiceInstance(
                           [NoDetails EXCEPT !.dname = tg.TargetGroupName,
                                             !.target_type = tg.TargetType],
                           "TG", _tg_id, ""))
             v2 == _add_relation(v1, _id, _tg_id)
         IN FoldSeq(LAMBDA a, x : _add_relation(a, _tg_id, x), v2, tg.Targets)

\* describe_elbsV2, one load balancer.  hz_name is the Name of the hosted
\* zone when get_hosted_zone answers, None when it raises (the name is then
\* the hosted zone id).
describe_elbV2(v, elb) ==
    IF ~elb.in_vpc THEN v
    ELSE LET _id == elb.LoadBalancerArn
             v1 == SetService(v, _id,
                       ServiceInstance(
                           [NoDetails EXCEPT !.dname = elb.LoadBalancerName],
                           "ELBv2", _id, ""))
             v2 == FoldSeq(LAMBDA a, az :
                               AzAddService(SubnetAdd(a, az.SubnetId, _id),
                                            az.ZoneName, _id),
                           v1, elb.AvailabilityZones)
             v3 == RelationsFrom(v2, _id, elb.SecurityGroups)
             hz_id == elb.CanonicalHostedZoneId
             hz == IF elb.hz_name # None THEN elb.hz_name ELSE hz_id
             v4 == SetService(v3, hz_id,
                       ServiceInstance([NoDetails EXCEPT !.dname = hz],
                                       "HZ", hz_id, ""))
             v5 == _add_relation(v4, hz_id, _id)
         IN FoldSeq(LAMBDA a, tg : describe_tg(a, _id, tg), v5,
                    elb.TargetGroups)

describe_elbsV2(v, response) == Each(describe_elbV2, v, response)

\* describe_enis, one network interface.
describe_eni(v, eni) ==
    LET _id == eni.NetworkInterfaceId
        v1 == SetService(v, _id,
                  ServiceInstance(
                      [NoDetails EXCEPT !.public_ip = eni.PublicIp,
                                        !.private_ip = eni.PrivateIpAddress],
                      "ENI", _id, ""))
    IN SubnetAdd(v1, eni.SubnetId, _id)

describe_enis(v, response) == Each(describe_eni, v, response)

\* describe_hosted_zones, one hosted zone.
describe_hosted_zone(v, hz) ==
    SetService(v, hz.HostedZoneId,
               ServiceInstance([NoDetails EXCEPT !.dname = hz.Name],
                               "HZ", hz.HostedZoneId, ""))

describe_hosted_zones(v, response) == Each(describe_hosted_zone, v, response)

\* describe_igws, one internet gateway.
describe_igw(v, igw) ==
    SetService(v, igw.InternetGatewayId,
               ServiceInstance(NoDetails, "IGW", igw.InternetGatewayId, ""))

describe_igws(v, response) == Each(describe_igw, v, response)

\* describe_lambdas, one function.  in_vpc: the function has a VpcConfig
\* of this VPC.
describe_lambda(v, lmbda) ==
    IF ~lmbda.in_vpc THEN v
    ELSE LET _id == lmbda.FunctionArn
             v1 == SetService(v, _id,
                       ServiceInstance(
                           [NoDetails EXCEPT !.dname = lmbda.FunctionName],
                           "Lambda", _id, ""))
             v2 == SubnetsAdd(v1, lmbda.SubnetIds, _id)
         IN RelationsFrom(v2, _id, lmbda.SecurityGroupIds)

describe_lambdas(v, response) == Each(describe_lambda, v, response)

\* describe_nats, one NAT gateway.
describe_nat(v, nat) ==
    LET _id == nat.NatGatewayId
        v1 == SetService(v, _id, ServiceInstance(NoDetails, "NAT", _id, ""))
        v2 == SubnetAdd(v1, nat.SubnetId, _id)
    IN RelationsFrom(v2, _id, nat.NatGatewayAddresses)

describe_nats(v, response) == Each(describe_nat, v, response)

\* describe_rdss, one database instance.
describe_rds(v, rds) ==
    IF ~rds.in_vpc THEN v
    ELSE LET _id == rds.DBInstanceIdentifier
             v1 == SetService(v, _id,
                       ServiceInstance(NoDetails, "RDS", _id,
                                       rds.DBInstanceClass))
             v2 == SubnetsAdd(v1, rds.Subnets, _id)
             v3 == RelationsFrom(v2, _id, rds.VpcSecurityGroups)
         IN AzAddService(v3, rds.AvailabilityZone, _id)

describe_rdss(v, response) == Each(describe_rds, v, response)

\* describe_subnets, one subnet.
describe_subnet(v, subnet) ==
    LET _id == subnet.SubnetId
        v1 == SetService(v, _id,
                  ServiceInstance(
                      [NoDetails EXCEPT !.cidr = subnet.CidrBlock,
                           !.map_public = subnet.MapPublicIpOnLaunch],
                      "SUBN", _id, ""))
    IN AzAddSubnet(v1, subnet.AvailabilityZone, _id)

describe_subnets(v, response) == Each(describe_subnet, v, response)

\* VpcEndpoint.create: the type tag of an endpoint, "" where create leaves
\* service_name unbound (and raises UnboundLocalError).
ept_service_name(instance_type) ==
    CASE instance_type = "Interface" -> "EPT-I"
      [] instance_type = "Gateway" -> "EPT-GW"
      [] instance_type = "GatewayLoadBalancer" -> "EPT-GWLB"
      [] OTHER -> ""

\* describe_vpc_epts, one endpoint.
describe_vpc_ept(v, ept) ==
    LET _id == ept.VpcEndpointId
        service_name == ept_service_name(ept.VpcEndpointType)
        v1 == SetService(v, _id,
                  ServiceInstance([NoDetails EXCEPT !.dname = ept.ServiceName],
                                  service_name, _id, ""))
        v2 == SubnetsAdd(v1, ept.SubnetIds, _id)
        v3 == RelationsFrom(v2, _id, ept.Groups)
        v4 == RelationsFrom(v3, _id, ept.RouteTableIds)
    IN IF service_name = "" THEN [v EXCEPT !.exc = "UnboundLocalError"]
       ELSE RelationsFrom(v4, _id, ept.NetworkInterfaceIds)

describe_vpc_epts(v, response) == Each(describe_vpc_ept, v, response)

\* describe_vpgws, one virtual private gateway.  AvailabilityZone has no
\* attribute services: a gateway that names its zone raises AttributeError
\* (self.azs[...] has made the zone's entry by then).
describe_vpgw(v, vpgw) ==
    LET _id == vpgw.VpnGatewayId
        v1 == SetService(v, _id, ServiceInstance(NoDetails, "VPGW", _id, ""))
        az == vpgw.AvailabilityZone
    IN IF az = None THEN v1
       ELSE [v1 EXCEPT !.exc = "AttributeError",
                       !.azs = IF az \in DOMAIN @ THEN @
                               ELSE @ @@ (az :> AvailabilityZone)]

describe_vpgws(v, response) == Each(describe_vpgw, v, response)

\* describe_vpc_peering_connections, one peering connection (the accepters
\* first, then the requesters).
describe_peering(v, peering) ==
    SetService(v, peering.VpcPeeringConnectionId,
               ServiceInstance(NoDetails, "PEER",
                               peering.VpcPeeringConnectionId, ""))

describe_vpc_peering_connections(v, accepters, requesters) ==
    Each(describe_peering, Each(describe_peering, v, accepters), requesters)

\* describe_acls, one network ACL.
describe_acl(v, acl) ==
    LET _id == acl.NetworkAclId
        v1 == SetService(v, _id, ServiceInstance(NoDetails, "ACL", _id, ""))
    IN FoldSeq(LAMBDA a, sn : _add_relation(a, sn, _id), v1, acl.Associations)

describe_acls(v, response) == Each(describe_acl, v, response)

\* describe_rtbs, one association of a route table; a field is None where
\* assoc.get() finds no such key.
describe_rtb_assoc(v, _id, assoc) ==
    _add_relation(_add_relation(v, assoc.SubnetId, _id), _id, assoc.GatewayId)

\* describe_rtbs, one route of a route table.
describe_rtb_route(v, _id, route) ==
    LET v1 == _add_relation(v, _id, route.EgressOnlyInternetGatewayId)
        v2 == _add_relation(v1, route.GatewayId, _id)
        v3 == _add_relation(v2, _id, route.InstanceId)
        v4 == _add_relation(v3, _id, route.NatGatewayId)
        v5 == _add_relation(v4, _id, route.TransitGatewayId)
        v6 == _add_relation(v5, _id, route.LocalGatewayId)
        v7 == _add_relation(v6, _id, route.CarrierGatewayId)
        v8 == _add_relation(v7, _id, route.NetworkInterfaceId)
    IN _add_relation(v8, _id, route.VpcPeeringConnectionId)

\* describe_rtbs, one route table.
describe_rtb(v, rtb) ==
    LET _id == rtb.RouteTableId
        v1 == SetService(v, _id, ServiceInstance(NoDetails, "RTB", _id, ""))
        v2 == FoldSeq(LAMBDA a, x : describe_rtb_assoc(a, _id, x), v1,
                      rtb.Associations)
    IN FoldSeq(LAMBDA a, x : describe_rtb_route(a, _id, x), v2, rtb.Routes)

describe_rtbs(v, response) == Each(describe_rtb, v, response)

\* SecurityGroup.relationships: the (source, target) pairs of a security
\* group; pairs.get(attr) that is None or empty yields nothing.
sg_pairs(me, pairs, inbound) ==
    LET one(value) ==
            IF value = None \/ value = <<>> THEN <<>>
            ELSE IF inbound THEN << <<value, me>> >> ELSE << <<me, value>> >>
    IN Concat([i \in 1..Len(pairs) |->
                  one(pairs[i].GroupId) \o one(pairs[i].VpcPeeringConnectionId)])

relationships(sg) ==
    sg_pairs(sg.GroupId, sg.IpPermissions, TRUE)
        \o sg_pairs(sg.GroupId, sg.IpPermissionsEgress, FALSE)

\* describe_sgs, one security group.
describe_sg(v, sg) ==
    LET _id == sg.GroupId
        v1 == SetService(v, _id,
                  ServiceInstance([NoDetails EXCEPT !.dname = sg.GroupName],
                                  "SG", _id, ""))
    IN FoldSeq(LAMBDA a, r : _add_relation(a, r[1], r[2]), v1,
               relationships(sg))

describe_sgs(v, response) == Each(describe_sg, v, response)

\* ------------------------------------------------------------------------
\* src/src/outputs/graphviz.py: edge

\* attrs[k] = val on a dict kept as a list of (key, value) in insertion
\* order: a key already present keeps its place.
SetAttr(attrs, k, val) ==
    IF \E i \in 1..Len(attrs) : attrs[i][1] = k
    THEN [i \in 1..Len(attrs) |->
             IF attrs[i][1] = k THEN <<k, val>> ELSE attrs[i]]
    ELSE Append(attrs, <<k, val>>)

HasAttr(attrs, k) == \E i \in 1..Len(attrs) : attrs[i][1] = k

AttrOf(attrs, k) == attrs[CHOOSE i \in 1..Len(attrs) : attrs[i][1] = k][2]

A_color == <<"c","o","l","o","r">>
A_constraint == <<"c","o","n","s","t","r","a","i","n","t">>
A_style == <<"s","t","y","l","e">>
A_weight == <<"w","e","i","g","h","t">>
V_False == <<"F","a","l","s","e">>
V_invis == <<"i","n","v","i","s">>
V_10 == <<"1","0">>

\* What edge() returns: an edge statement (kind "edge"), None (kind
\* "None"), or the exception it raises (kind "TypeError": a level that is
\* None in the comparison of line 251).
NoEdge(kind) == [kind |-> kind, source |-> <<>>, target |-> <<>>, attrs |-> <<>>]

\* edge_level_attrs, had line 251 compared with >= (equal levels a
\* back-edge).
edge_level_attrs_ge(source, target, attrs) ==
    IF level(source.service_name) >= level(target.service_name)
    THEN SetAttr(SetAttr(attrs, A_constraint, V_False), A_style, V_invis)
    ELSE IF cost_per_month(source) > 0 /\ target.service_name = "SG"
    THEN SetAttr(SetAttr(attrs, A_constraint, V_False), A_style, V_invis)
    ELSE attrs

\* edge_level_attrs, without the elif of lines 254-256 (no cost rule).
edge_level_attrs_no_cost(source, target, attrs) ==
    IF level(source.service_name) > level(target.service_name)
    THEN SetAttr(SetAttr(attrs, A_constraint, V_False), A_style, V_invis)
    ELSE attrs

\* The attributes the back-edge rule and the cost rule set (lines 250-256).
edge_level_attrs(source, target, attrs) ==
    IF level(source.service_name) > level(target.service_name)
    THEN SetAttr(SetAttr(attrs, A_constraint, V_False), A_style, V_invis)
    ELSE IF cost_per_month(source) > 0 /\ target.service_name = "SG"
    THEN SetAttr(SetAttr(attrs, A_constraint, V_False), A_style, V_invis)
    ELSE attrs

\* The attributes the route table rule sets (lines 258-265).  Line 265,
\* attrs["color"]: "mediumpurple", is an annotation and assigns nothing.
edge_rtb_attrs(source, target, v, attrs) ==
    IF source.service_name = "ENI" /\ target.service_name = "RTB"
    THEN IF Relation(id(source), id(target)) \notin v.relations
         THEN SetAttr(SetAttr(attrs, A_weight, V_10), A_style, V_invis)
         ELSE attrs
    ELSE attrs

\* edge(source, target, vpc)
\* A variant without the test of a subnet source.
edge_from_subnet(source, target, v) ==
    IF level(source.service_name) = NoLevel
            \/ level(target.service_name) = NoLevel
    THEN NoEdge("TypeError")
    ELSE [kind |-> "edge",
          source |-> graphviz_id(id(source)),
          target |-> graphviz_id(id(target)),
          attrs |-> edge_rtb_attrs(source, target, v,
                        edge_level_attrs(source, target,
                            << <<A_color, graphviz_color(source.service_name)>> >>))]

edge(source, target, v) ==
    IF source.service_name = "SUBN" THEN NoEdge("None")
    ELSE IF level(source.service_name) = NoLevel
            \/ level(target.service_name) = NoLevel
    THEN NoEdge("TypeError")
    ELSE [kind |-> "edge",
          source |-> graphviz_id(id(source)),
          target |-> graphviz_id(id(target)),
          attrs |-> edge_rtb_attrs(source, target, v,
                        edge_level_attrs(source, target,
                            << <<A_color, graphviz_color(source.service_name)>> >>))]

\* The text of an edge statement:  <source> -> <target> [k="v" k="v"]
EdgeText(e) ==
    e.source \o <<" ", "-", ">", " ">> \o e.target \o <<" ", "[">>
        \o Join(<<" ">>, [i \in 1..Len(e.attrs) |->
               e.attrs[i][1] \o <<"=", "\"">> \o e.attrs[i][2] \o <<"\"">>])
        \o <<"]">>

\* ------------------------------------------------------------------------
\* src/src/outputs/graphviz.py: to_graphviz

\* cidr_sort(svc): the octets of the address part of the CIDR block.
\* A variant that keys a subnet by the characters of its address.
cidr_sort_text(svc) ==
    LET ip == Split(svc.details.cidr, "/")[1]
    IN [i \in 1..Len(ip) |-> Ord[ip[i]]]

cidr_sort(svc) ==
    LET ip == Split(svc.details.cidr, "/")[1]
        octets == Split(ip, ".")
    IN [i \in 1..Len(octets) |-> ToInt(octets[i])]

\* The order of two lists of integers.
IntsLess(a, b) == SeqLess(LAMBDA x, y : x < y, a, b)

\* The order of two Relation tuples.
RelationLess(a, b) ==
    IF a[1] = b[1] THEN StrLess(a[2], b[2]) ELSE StrLess(a[1], b[1])

\* The order of the keys (service_name, instance_name).
InsideLess(a, b) ==
    IF a.service_name = b.service_name
    THEN StrLess(a.instance_name, b.instance_name)
    ELSE StrLess(TagChars[a.service_name], TagChars[b.service_name])

\* connected (lines 283-292)
connected(v) ==
    {r[1] : r \in v.relations} \cup {r[2] : r \in v.relations}
        \cup {id(x) : x \in {y \in Range(services(v)) :
                \/ y.service_name \in Range(STORAGE)
                \/ y.service_name \in Range(COMPUTE)
                \/ y.service_name = "HZ"}}

\* vpc.subnets[k] read only: the list of a key, empty for a key not made.
SubnetMembers(v, k) == IF k \in DOMAIN v.subnets THEN v.subnets[k] ELSE <<>>

\* az_tally[k] (lines 295-298)
az_tally(v, k) ==
    LET RECURSIVE sum(_)
        sum(Z) == IF Z = {} THEN 0
                  ELSE LET z == CHOOSE x \in Z : TRUE
                       IN Count(v.azs[z].service_ids, k) + sum(Z \ {z})
    IN sum(DOMAIN v.azs)

\* sn_tally[k] (lines 297-300)
sn_tally(v, k) ==
    LET RECURSIVE sumseq(_)
        sumseq(sns) == IF sns = <<>> THEN 0
                       ELSE Count(SubnetMembers(v, Head(sns)), k)
                                + sumseq(Tail(sns))
        RECURSIVE sum(_)
        sum(Z) == IF Z = {} THEN 0
                  ELSE LET z == CHOOSE x \in Z : TRUE
                       IN sumseq(v.azs[z].subnet_ids) + sum(Z \ {z})
    IN sum(DOMAIN v.azs)

\* The keys of the two tallies.
AzTallyKeys(v) == UNION {Range(v.azs[z].service_ids) : z \in DOMAIN v.azs}

SnTallyKeys(v) ==
    UNION {Range(SubnetMembers(v, k)) :
              k \in UNION {Range(v.azs[z].subnet_ids) : z \in DOMAIN v.azs}}

\* single_subnet (line 302)
single_subnet(v) == {k \in SnTallyKeys(v) : sn_tally(v, k) = 1}

\* single_az, had line 304 not asked for a tally of 1.
single_az_any(v) == {k \in AzTallyKeys(v) : k \notin single_subnet(v)}

\* single_az (lines 303-305)
single_az(v) ==
    {k \in AzTallyKeys(v) : az_tally(v, k) = 1 /\ k \notin single_subnet(v)}

\* contained (line 312)
contained(v) == single_subnet(v) \cup single_az(v)

\* vpc.subnets after the reads vpc.subnets[k] of lines 300 and 390: a
\* defaultdict makes the entry of every key it is asked for.
SubnetsTouched(v, ks) ==
    [k \in DOMAIN v.subnets \cup ks |-> SubnetMembers(v, k)]

\* region, without the elif of lines 338-339 (no side-network region).
region_no_nw(v, x) ==
    LET l == level(x.service_name)
        display_outside_sn ==
            id(x) \in connected(v) /\ id(x) \notin contained(v)
    IN IF l < level("VPC") THEN "route53"
       ELSE IF l < level("SUBN") /\ id(x) \notin contained(v) THEN "top"
       ELSE IF x.service_name \in Range(BOTTOM_SVC) /\ display_outside_sn
       THEN "bottom"
       ELSE "none"

\* The branch of lines 332-339 a resource takes.
region(v, x) ==
    LET l == level(x.service_name)
        display_outside_sn ==
            id(x) \in connected(v) /\ id(x) \notin contained(v)
    IN IF l < level("VPC") THEN "route53"
       ELSE IF l < level("SUBN") /\ id(x) \notin contained(v) THEN "top"
       ELSE IF x.service_name \in Range(BOTTOM_SVC) /\ display_outside_sn
       THEN "bottom"
       ELSE IF x.service_name \in Range(NW_SVC) /\ display_outside_sn
       THEN "nw"
       ELSE "none"

\* The node statements of one shared region, in the order of vpc.services.
region_services(v, area) ==
    LET keep == FilterSeq(LAMBDA x : region(v, x) = area, services(v))
    IN [i \in 1..Len(keep) |-> node(keep[i])]

\* ranks (lines 349-350): per type, in the order of first appearance, the
\* ids of its connected resources.
ranks(v) ==
    LET add(acc, x) ==
            IF x.service_name = "SUBN" \/ id(x) \notin connected(v) THEN acc
            ELSE IF \E i \in 1..Len(acc) : acc[i][1] = x.service_name
            THEN [i \in 1..Len(acc) |->
                     IF acc[i][1] = x.service_name
                     THEN <<acc[i][1], Append(acc[i][2], id(x))>>
                     ELSE acc[i]]
            ELSE Append(acc, <<x.service_name, <<id(x)>> >>)
    IN FoldSeq(add, <<>>, services(v))

\* ids_of_type, had lines 352-355 not asked for a connected resource.
ids_of_type_all(v, service_name) ==
    LET keep == FilterSeq(LAMBDA x : x.service_name = service_name,
                          services(v))
    IN [i \in 1..Len(keep) |-> id(keep[i])]

\* enis and rtbs (lines 352-355)
ids_of_type(v, service_name) ==
    LET keep == FilterSeq(LAMBDA x : x.service_name = service_name
                                       /\ id(x) \in connected(v),
                          services(v))
    IN [i \in 1..Len(keep) |-> id(keep[i])]

\* az.top_services and az.bottom_services (lines 370-378)
az_services(v, availzone, top) ==
    LET keep == FilterSeq(
            LAMBDA x :
                /\ id(x) \in Range(availzone.service_ids)
                /\ id(x) \in single_az(v)
                /\ IF top THEN level(x.service_name) < level("SUBN")
                          ELSE level(x.service_name) > level("ENI"),
            services(v))
    IN [i \in 1..Len(keep) |-> node(keep[i])]

\* subnet_instances, sorted (lines 380-382)
sorted_subnets(v, availzone) ==
    Sorted(LAMBDA a, b : IntsLess(cidr_sort(a), cidr_sort(b)),
           [i \in 1..Len(availzone.subnet_ids) |->
               GetItem(v, availzone.subnet_ids[i])])

\* inside, sorted (lines 388-393)
\* A variant that keeps every member of the subnet.
inside_all(v, subnet) ==
    Sorted(InsideLess,
           [i \in 1..Len(SubnetMembers(v, id(subnet))) |->
               GetItem(v, SubnetMembers(v, id(subnet))[i])])

inside(v, subnet) ==
    LET xs == FilterSeq(LAMBDA x : x \in connected(v) /\ x \in single_subnet(v),
                        SubnetMembers(v, id(subnet)))
    IN Sorted(InsideLess, [i \in 1..Len(xs) |-> GetItem(v, xs[i])])

\* The label of a subnet cluster (line 383).
subnet_label(subnet) ==
    (IF subnet.details.map_public
     THEN <<"P","u","b","l","i","c">> ELSE <<"P","r","i","v","a","t","e">>)
        \o NL \o subnet.details.cidr \o NL \o name(subnet)
        \o NL \o subnet.instance_name

\* GVSN(cluster_id, id, label) with its services (lines 383-394)
GVSN(v, subnet, sn_i) ==
    [cluster_id |-> 1000 + sn_i * 10, id |-> id(subnet),
     label |-> subnet_label(subnet),
     services |-> [i \in 1..Len(inside(v, subnet)) |->
                      node(inside(v, subnet)[i])]]

\* GVAZ(cluster_id, label) with its lists (lines 360-394); sn_0 is the
\* number of subnet clusters made before this zone.
GVAZ(v, azk, az_i, sn_0) ==
    LET availzone == v.azs[azk]
        sns == sorted_subnets(v, availzone)
    IN [cluster_id |-> 100 + az_i * 10, label |-> azk,
        subnets |-> [i \in 1..Len(sns) |-> GVSN(v, sns[i], sn_0 + i - 1)],
        top_services |-> az_services(v, availzone, TRUE),
        bottom_services |-> az_services(v, availzone, FALSE)]

\* azs (lines 357-394): one GVAZ per zone, in the order of the zone names.
gv_azs(v) ==
    LET names == SortedSet(StrLess, DOMAIN v.azs)
        before(i) ==
            FoldSeq(LAMBDA n, z : n + Len(v.azs[z].subnet_ids), 0,
                    SubSeq(names, 1, i - 1))
    IN [i \in 1..Len(names) |-> GVAZ(v, names[i], i - 1, before(i))]

\* raw, the edges of the relations (lines 397-401)
relation_edges(v) ==
    LET rels == FilterSeq(LAMBDA x : Contains(v, x[1]) /\ Contains(v, x[2]),
                          SortedSet(RelationLess, v.relations))
    IN [i \in 1..Len(rels) |->
           edge(GetItem(v, rels[i][1]), GetItem(v, rels[i][2]), v)]

\* product(enis, rtbs)
product(xs, ys) ==
    [k \in 1..(Len(xs) * Len(ys)) |->
        <<xs[((k - 1) \div Len(ys)) + 1], ys[((k - 1) % Len(ys)) + 1]>>]

\* The ENI to RTB edges (lines 404-405)
synthesized_edges(v) ==
    LET pairs == product(ids_of_type(v, "ENI"), ids_of_type(v, "RTB"))
    IN [i \in 1..Len(pairs) |->
           edge(GetItem(v, pairs[i][1]), GetItem(v, pairs[i][2]), v)]

\* raw (lines 397-405)
raw_edges(v) == relation_edges(v) \o synthesized_edges(v)

\* edges (line 407)
\* A variant that keeps the order of raw.
sorted_edges_unsorted(v) ==
    FilterSeq(LAMBDA e : e.kind # "None", raw_edges(v))

sorted_edges(v) ==
    Sorted(LAMBDA a, b : StrLess(EdgeText(a), EdgeText(b)),
           FilterSeq(LAMBDA e : e.kind # "None", raw_edges(v)))

\* The exception to_graphviz raises on this graph, "" when it returns:
\* a level that is None is compared (lines 332, 251), or vpc[key] is None
\* (or no Subnet) where an attribute of it is read (lines 167, 393, 239).
gv_exception(v) ==
    IF \E x \in Range(services(v)) : level(x.service_name) = NoLevel
    THEN "TypeError"
    ELSE IF \E z \in DOMAIN v.azs : \E k \in Range(v.azs[z].subnet_ids) :
                \/ ~Contains(v, k)
                \/ GetItem(v, k).service_name # "SUBN"
    THEN "AttributeError"
    ELSE IF \E z \in DOMAIN v.azs : \E k \in Range(v.azs[z].subnet_ids) :
                \E x \in Range(SubnetMembers(v, id(GetItem(v, k)))) :
                    x \in connected(v) /\ x \in single_subnet(v)
                        /\ ~Contains(v, x)
    THEN "AttributeError"
    ELSE IF \E e \in Range(ids_of_type(v, "ENI")) \cup
                      Range(ids_of_type(v, "RTB")) : ~Contains(v, e)
    THEN "AttributeError"
    ELSE IF \E e \in Range(raw_edges(v)) : e.kind = "TypeError"
    THEN "TypeError"
    ELSE ""

\* What to_graphviz hands to the template (lines 413-424), with the sets
\* it computed on the way; nothing is written when it raises.
NoOutput ==
    [exc |-> "", route53_services |-> <<>>, top_services |-> <<>>,
     azs |-> <<>>, bottom_services |-> <<>>, nw_services |-> <<>>,
     svc_types |-> <<>>, edges |-> <<>>, raw |-> <<>>,
     connected |-> {}, single_subnet |-> {}, single_az |-> {}]

to_graphviz(v) ==
    IF gv_exception(v) # "" THEN [NoOutput EXCEPT !.exc = gv_exception(v)]
    ELSE [exc |-> "",
          route53_services |-> region_services(v, "route53"),
          top_services |-> region_services(v, "top"),
          azs |-> gv_azs(v),
          bottom_services |-> region_services(v, "bottom"),
          nw_services |-> region_services(v, "nw"),
          svc_types |-> ranks(v),
          edges |-> sorted_edges(v),
          raw |-> raw_edges(v),
          connected |-> connected(v),
          single_subnet |-> single_subnet(v),
          single_az |-> single_az(v)]

\* The graph after to_graphviz: the reads of vpc.subnets made the entries
\* of the subnet ids the zones list.
after_graphviz(v) ==
    [v EXCEPT !.subnets =
        SubnetsTouched(v, UNION {Range(v.azs[z].subnet_ids) : z \in DOMAIN v.azs})]

\* ------------------------------------------------------------------------
\* The answers of the AWS API the scan reads: a small account.

ZA == <<"z","a">>
ZB == <<"z","b">>
S1 == <<"s","-","1">>
S2 == <<"s","-","2">>
S3 == <<"s","-","3">>
CIDR1 == <<"1","0",".","0",".","1","0",".","0","/","2","4">>
CIDR2 == <<"1","0",".","0",".","3",".","0","/","2","4">>
CIDR3 == <<"1","0",".","0",".","2",".","0","/","2","4">>
W == <<"w">>
I1 == <<"i","-","1">>
E1 == <<"e","-","1">>
E2 == <<"e","-","2">>
G1 == <<"g","-","1">>
G2 == <<"g","-","2">>
N1 == <<"n","-","1">>
D1 == <<"d">>
H1 == <<"H","1">>
IG1 == <<"i","g","-","1">>
VG1 == <<"v","g","-","1">>
P1 == <<"p","-","1">>
A1 == <<"a","-","1">>
R1 == <<"r","-","1">>
V1 == <<"v","-","1">>
K_ARN == <<"a","r","n",":","a",":","k",":","r",":","1",":","c","/","k">>
F_ARN == <<"a","r","n",":","a",":","f",":","r",":","1",":","f","n",":","f">>
L_ARN == <<"a","r","n",":","a",":","e",":","r",":","1",":","l","b","/","a","p","p","/","l","/","1">>
T_ARN == <<"a","r","n",":","a",":","e",":","r",":","1",":","t","g","/","t","/","1">>

\* The largest number of resources of a scan, and of items of one answer.
MaxServices == 4
MaxResp == 2

\* The answers of at most MaxResp items, of distinct ids, drawn from Items.
Answers(Items, IdOf(_)) ==
    {a \in UNION {[1..n -> Items] : n \in 1..MaxResp} :
        \A i, j \in 1..Len(a) : i # j => IdOf(a[i]) # IdOf(a[j])}

AsgItems ==
    {[AutoScalingGroupName |-> W, in_vpc |-> TRUE, LoadBalancerNames |-> <<W>>,
      Instances |-> <<I1>>, AvailabilityZones |-> <<ZA>>],
     [AutoScalingGroupName |-> W, in_vpc |-> TRUE, LoadBalancerNames |-> <<>>,
      Instances |-> <<>>, AvailabilityZones |-> <<ZA, ZB>>]}

Ec2Items ==
    {[InstanceId |-> I1, InstanceType |-> "t2.micro",
      NetworkInterfaces |-> <<E1>>, SecurityGroups |-> <<G1>>,
      SubnetId |-> S1, AvailabilityZone |-> ZA],
     [InstanceId |-> I1, InstanceType |-> "c5.large",
      NetworkInterfaces |-> <<>>, SecurityGroups |-> <<G1>>,
      SubnetId |-> S1, AvailabilityZone |-> ZA]}

EksItems ==
    {[arn |-> K_ARN, name |-> <<"k">>, in_vpc |-> TRUE,
      subnetIds |-> <<S1, S2>>, securityGroupIds |-> <<G1>>]}

ElbItems ==
    {[LoadBalancerName |-> W, in_vpc |-> TRUE, Subnets |-> <<S1>>,
      SecurityGroups |-> <<G1>>, Instances |-> <<I1>>,
      AvailabilityZones |-> <<ZA>>],
     [LoadBalancerName |-> W, in_vpc |-> TRUE, Subnets |-> <<S1, S2>>,
      SecurityGroups |-> <<>>, Instances |-> <<>>,
      AvailabilityZones |-> <<ZA, ZB>>]}

ElbV2Items ==
    {[LoadBalancerArn |-> L_ARN, LoadBalancerName |-> <<"l">>, in_vpc |-> TRUE,
      AvailabilityZones |-> << [SubnetId |-> S1, ZoneName |-> ZA] >>,
      SecurityGroups |-> <<G1>>, CanonicalHostedZoneId |-> H1,
      hz_name |-> None, TargetGroups |-> <<>>],
     [LoadBalancerArn |-> L_ARN, LoadBalancerName |-> <<"l">>, in_vpc |-> TRUE,
      AvailabilityZones |-> << [SubnetId |-> S1, ZoneName |-> ZA],
                               [SubnetId |-> S2, ZoneName |-> ZB] >>,
      SecurityGroups |-> <<>>, CanonicalHostedZoneId |-> H1,
      hz_name |-> <<"h">>,
      TargetGroups |-> << [TargetGroupArn |-> T_ARN,
                           TargetGroupName |-> <<"t">>, in_vpc |-> TRUE,
                           TargetType |-> "instance",
                           Targets |-> <<I1>>] >>]}

EniItems ==
    {[NetworkInterfaceId |-> E1, SubnetId |-> S1, PublicIp |-> None,
      PrivateIpAddress |-> None],
     [NetworkInterfaceId |-> E2, SubnetId |-> S1, PublicIp |-> None,
      PrivateIpAddress |-> None]}

HostedZoneItems == {[HostedZoneId |-> H1, Name |-> <<"h">>]}

IgwItems == {[InternetGatewayId |-> IG1]}

LambdaItems ==
    {[FunctionArn |-> F_ARN, FunctionName |-> <<"f">>, in_vpc |-> TRUE,
      SubnetIds |-> <<S1>>, SecurityGroupIds |-> <<G1>>],
     [FunctionArn |-> F_ARN, FunctionName |-> <<"f">>, in_vpc |-> TRUE,
      SubnetIds |-> <<S1, S2>>, SecurityGroupIds |-> <<G1>>]}

NatItems ==
    {[NatGatewayId |-> N1, SubnetId |-> S1, NatGatewayAddresses |-> <<E1>>]}

RdsItems ==
    {[DBInstanceIdentifier |-> D1, in_vpc |-> TRUE,
      DBInstanceClass |-> "db.t2.micro", Subnets |-> <<S1, S2>>,
      VpcSecurityGroups |-> <<G1>>, AvailabilityZone |-> ZA],
     [DBInstanceIdentifier |-> W, in_vpc |-> TRUE,
      DBInstanceClass |-> "db.t4g.micro", Subnets |-> <<S1, S2>>,
      VpcSecurityGroups |-> <<>>, AvailabilityZone |-> ZA]}

SubnetItems ==
    {[SubnetId |-> S1, AvailabilityZone |-> ZA, CidrBlock |-> CIDR1,
      MapPublicIpOnLaunch |-> FALSE],
     [SubnetId |-> S2, AvailabilityZone |-> ZB, CidrBlock |-> CIDR2,
      MapPublicIpOnLaunch |-> FALSE],
     [SubnetId |-> S3, AvailabilityZone |-> ZA, CidrBlock |-> CIDR3,
      MapPublicIpOnLaunch |-> TRUE]}

EptItems ==
    {[VpcEndpointId |-> V1, VpcEndpointType |-> "Interface",
      ServiceName |-> <<"s","3">>, SubnetIds |-> <<S1>>, Groups |-> <<G1>>,
      RouteTableIds |-> <<>>, NetworkInterfaceIds |-> <<E1>>],
     [VpcEndpointId |-> V1, VpcEndpointType |-> "Gateway",
      ServiceName |-> <<"s","3">>, SubnetIds |-> <<>>, Groups |-> <<>>,
      RouteTableIds |-> <<R1>>, NetworkInterfaceIds |-> <<>>],
     [VpcEndpointId |-> V1, VpcEndpointType |-> "GatewayLoadBalancer",
      ServiceName |-> <<"s","3">>, SubnetIds |-> <<S1>>, Groups |-> <<>>,
      RouteTableIds |-> <<>>, NetworkInterfaceIds |-> <<>>],
     [VpcEndpointId |-> V1, VpcEndpointType |-> "Resource",
      ServiceName |-> <<"s","3">>, SubnetIds |-> <<>>, Groups |-> <<>>,
      RouteTableIds |-> <<>>, NetworkInterfaceIds |-> <<>>]}

VpgwItems ==
    {[VpnGatewayId |-> VG1, AvailabilityZone |-> None],
     [VpnGatewayId |-> VG1, AvailabilityZone |-> ZA]}

PeeringItems == {[VpcPeeringConnectionId |-> P1]}

AclItems == {[NetworkAclId |-> A1, Associations |-> <<S1>>]}

\* A route with no key but the ones given.
NoRoute ==
    [EgressOnlyInternetGatewayId |-> None, GatewayId |-> None,
     InstanceId |-> None, NatGatewayId |-> None, TransitGatewayId |-> None,
     LocalGatewayId |-> None, CarrierGatewayId |-> None,
     NetworkInterfaceId |-> None, VpcPeeringConnectionId |-> None]

RtbItems ==
    {[RouteTableId |-> R1,
      Associations |-> << [SubnetId |-> S1, GatewayId |-> None] >>,
      Routes |-> << [NoRoute EXCEPT !.GatewayId = IG1] >>],
     [RouteTableId |-> R1, Associations |-> <<>>,
      Routes |-> << [NoRoute EXCEPT !.NetworkInterfaceId = E1],
                    [NoRoute EXCEPT !.NetworkInterfaceId = E2] >>],
     [RouteTableId |-> R1, Associations |-> <<>>,
      Routes |-> << [NoRoute EXCEPT !.NatGatewayId = N1],
                    [NoRoute EXCEPT !.NatGatewayId = N1] >>],
     [RouteTableId |-> R1, Associations |-> <<>>,
      Routes |-> << [NoRoute EXCEPT !.GatewayId = E1,
                                    !.NetworkInterfaceId = E1],
                    [NoRoute EXCEPT !.NetworkInterfaceId = E2] >>],
     [RouteTableId |-> R1, Associations |-> <<>>,
      Routes |-> << [NoRoute EXCEPT !.GatewayId = <<>>] >>]}

\* A UserIdGroupPairs entry; IpPermissions is the list of the entries of
\* all its permissions, in order.
SgItems ==
    {[GroupId |-> G1, GroupName |-> <<"g">>,
      IpPermissions |-> << [GroupId |-> G1, VpcPeeringConnectionId |-> None] >>,
      IpPermissionsEgress |->
          << [GroupId |-> G1, VpcPeeringConnectionId |-> None] >>],
     [GroupId |-> G1, GroupName |-> <<"g">>,
      IpPermissions |-> << [GroupId |-> G2, VpcPeeringConnectionId |-> P1] >>,
      IpPermissionsEgress |->
          << [GroupId |-> G2, VpcPeeringConnectionId |-> None] >>]}

\* ------------------------------------------------------------------------
\* The run: VPC.scan, then to_graphviz.

VARIABLES
    vpc,    \* the VPC object
    step,   \* the number of the last describe_* call of scan that got items
    pc,     \* "scan", "failed" (the scan raised), "done" (to_graphviz ran)
    out,    \* what to_graphviz computed
    arg,    \* the arguments of a function called on its own
    res     \* what that call returned or raised

vars == <<vpc, step, pc, out, arg, res>>

\* No function called on its own.
Idle == [fn |-> "none"]

Init ==
    /\ vpc = NewVPC
    /\ step = 0
    /\ pc = "scan"
    /\ out = NoOutput
    /\ arg = Idle
    /\ res = Idle

\* One describe_* call of scan, the n-th in the order of lines 431-450,
\* bringing the graph to v.  A call whose answer is empty changes nothing:
\* the calls between step and n are such calls.
Described(n, v) ==
    /\ pc = "scan"
    /\ step < n
    /\ Len(v._services) <= MaxServices
    /\ vpc' = v
    /\ step' = n
    /\ pc' = IF v.exc # "" THEN "failed" ELSE "scan"
    /\ UNCHANGED <<out, arg, res>>

DescribeAsgs ==
    \E a \in Answers(AsgItems, LAMBDA x : x.AutoScalingGroupName) :
        Described(1, describe_asgs(vpc, a))

DescribeEc2s ==
    \E a \in Answers(Ec2Items, LAMBDA x : x.InstanceId) :
        Described(2, describe_ec2s(vpc, a))

DescribeEkss ==
    \E a \in Answers(EksItems, LAMBDA x : x.arn) :
        Described(3, describe_ekss(vpc, a))

DescribeElbs ==
    \E a \in Answers(ElbItems, LAMBDA x : x.LoadBalancerName) :
        Described(4, describe_elbs(vpc, a))

DescribeElbsV2 ==
    \E a \in Answers(ElbV2Items, LAMBDA x : x.LoadBalancerArn) :
        Described(5, describe_elbsV2(vpc, a))

DescribeEnis ==
    \E a \in Answers(EniItems, LAMBDA x : x.NetworkInterfaceId) :
        Described(6, describe_enis(vpc, a))

DescribeHostedZones ==
    \E a \in Answers(HostedZoneItems, LAMBDA x : x.HostedZoneId) :
        Described(7, describe_hosted_zones(vpc, a))

DescribeIgws ==
    \E a \in Answers(IgwItems, LAMBDA x : x.InternetGatewayId) :
        Described(8, describe_igws(vpc, a))

DescribeLambdas ==
    \E a \in Answers(LambdaItems, LAMBDA x : x.FunctionArn) :
        Described(9, describe_lambdas(vpc, a))

DescribeNats ==
    \E a \in Answers(NatItems, LAMBDA x : x.NatGatewayId) :
        Described(10, describe_nats(vpc, a))

DescribeRdss ==
    \E a \in Answers(RdsItems, LAMBDA x : x.DBInstanceIdentifier) :
        Described(11, describe_rdss(vpc, a))

DescribeSubnets ==
    \E a \in Answers(SubnetItems, LAMBDA x : x.SubnetId) :
        Described(12, describe_subnets(vpc, a))

DescribeVpcEpts ==
    \E a \in Answers(EptItems, LAMBDA x : x.VpcEndpointId) :
        Described(13, describe_vpc_epts(vpc, a))

DescribeVpgws ==
    \E a \in Answers(VpgwItems, LAMBDA x : x.VpnGatewayId) :
        Described(14, describe_vpgws(vpc, a))

DescribeVpcPeeringConnections ==
    \E a \in Answers(PeeringItems, LAMBDA x : x.VpcPeeringConnectionId),
       accepter \in BOOLEAN :
        Described(15, IF accepter
                      THEN describe_vpc_peering_connections(vpc, a, <<>>)
                      ELSE describe_vpc_peering_connections(vpc, <<>>, a))

DescribeAcls ==
    \E a \in Answers(AclItems, LAMBDA x : x.NetworkAclId) :
        Described(16, describe_acls(vpc, a))

DescribeRtbs ==
    \E a \in Answers(RtbItems, LAMBDA x : x.RouteTableId) :
        Described(17, describe_rtbs(vpc, a))

DescribeSgs ==
    \E a \in Answers(SgItems, LAMBDA x : x.GroupId) :
        Described(18, describe_sgs(vpc, a))

\* The scan is over: describe_subnets has listed every subnet of the VPC,
\* so every subnet another answer placed a resource in is one of them.
ScanComplete ==
    \A k \in DOMAIN vpc.subnets :
        Contains(vpc, k) /\ GetItem(vpc, k).service_name = "SUBN"

\* Region.to_graphviz: to_graphviz(v, f) on the scanned VPC.
ToGraphviz ==
    /\ pc = "scan"
    /\ ScanComplete
    /\ out' = to_graphviz(vpc)
    /\ vpc' = after_graphviz(vpc)
    /\ pc' = "done"
    /\ UNCHANGED <<step, arg, res>>

Next ==
    \/ DescribeAsgs
    \/ DescribeEc2s
    \/ DescribeEkss
    \/ DescribeElbs
    \/ DescribeElbsV2
    \/ DescribeEnis
    \/ DescribeHostedZones
    \/ DescribeIgws
    \/ DescribeLambdas
    \/ DescribeNats
    \/ DescribeRdss
    \/ DescribeSubnets
    \/ DescribeVpcEpts
    \/ DescribeVpgws
    \/ DescribeVpcPeeringConnections
    \/ DescribeAcls
    \/ DescribeRtbs
    \/ DescribeSgs
    \/ ToGraphviz

Spec == Init /\ [][Next]_vars

\* ------------------------------------------------------------------------
\* The functions of the program called on their own, on arguments of any
\* value their parameters admit.

\* The longest string graphviz_id is called on.
MaxIdLen == 3

\* The characters of those strings: the four of REPLACE_TABLE, and two it
\* does not list.
IdChars == {" ", "-", "/", ".", "_", "a"}

IdStrings == UNION {[1..n -> IdChars] : n \in 0..MaxIdLen}

GraphvizIdArgs == {[fn |-> "graphviz_id", s |-> s] : s \in IdStrings}

\* graphviz_id(s)
CallGraphvizId ==
    /\ arg.fn = "graphviz_id"
    /\ res = Idle
    /\ res' = [fn |-> "graphviz_id", value |-> graphviz_id(arg.s)]
    /\ UNCHANGED <<vpc, step, pc, out, arg>>

\* The resources == and hash() are called on: every variant with fields
\* of its own, and two without.
EqResources ==
    {ServiceInstance([NoDetails EXCEPT !.tag = t], "EC2", I1, it) :
        t \in {None, <<"x">>}, it \in {"t2.micro", "c5.large"}}
    \cup {ServiceInstance(NoDetails, "RDS", n, it) :
        n \in {D1, I1}, it \in {"db.t2.micro", "db.t4g.micro"}}
    \cup {ServiceInstance([NoDetails EXCEPT !.target_type = tt], "TG", T_ARN, "") :
        tt \in {"instance", "ip"}}
    \cup {ServiceInstance([NoDetails EXCEPT !.dname = d], "SG", n, "") :
        n \in {G1, G2}, d \in {<<"g">>, <<"h">>}}
    \cup {ServiceInstance(NoDetails, "RTB", n, "") : n \in {R1, G1}}

EqArgs ==
    {[fn |-> "eq", self |-> a, other |-> b] : a, b \in EqResources}

\* self == other, hash(self), hash(other)
CallEq ==
    /\ arg.fn = "eq"
    /\ res = Idle
    /\ res' = [fn |-> "eq", value |-> __eq__(arg.self, arg.other),
               hash_self |-> __hash__(arg.self),
               hash_other |-> __hash__(arg.other)]
    /\ UNCHANGED <<vpc, step, pc, out, arg>>

\* The resources edge() is called on.  TGW is a type the level list does
\* not hold; no describe_* call of vpc.py makes one, a caller's own
\* ServiceInstance can.
EdgeResources ==
    {ServiceInstance(NoDetails, "TGW", P1, ""),
     ServiceInstance(NoDetails, "EC2", I1, "t2.micro"),
     ServiceInstance(NoDetails, "ASG", W, ""),
     ServiceInstance(NoDetails, "SUBN", S1, ""),
     ServiceInstance(NoDetails, "ENI", E1, ""),
     ServiceInstance(NoDetails, "RTB", R1, ""),
     ServiceInstance(NoDetails, "SG", G1, "")}

\* related: whether vpc.relations holds Relation(source.id, target.id)
EdgeArgs ==
    {[fn |-> "edge", source |-> a, target |-> b, related |-> r] :
        a, b \in EdgeResources, r \in BOOLEAN}

\* edge(source, target, vpc)
CallEdge ==
    /\ arg.fn = "edge"
    /\ res = Idle
    /\ res' = [fn |-> "edge",
               value |-> edge(arg.source, arg.target,
                   IF arg.related
                   THEN [NewVPC EXCEPT !.relations =
                           {Relation(id(arg.source), id(arg.target))}]
                   ELSE NewVPC)]
    /\ UNCHANGED <<vpc, step, pc, out, arg>>

\* The resources of the graphs filled by vpc._services[key] = svc before
\* to_graphviz(vpc, stream).
MaxGraph == 3

GraphResources ==
    {ServiceInstance(NoDetails, "ASG", W, ""),
     ServiceInstance(NoDetails, "VPGW", VG1, ""),
     ServiceInstance(NoDetails, "HZ", H1, ""),
     ServiceInstance(NoDetails, "RDS", D1, "db.t2.micro"),
     ServiceInstance(NoDetails, "TGW", P1, "")}

\* The orders of insertion: sequences without repetition.
Orders ==
    UNION {{o \in [1..n -> GraphResources] :
                \A i, j \in 1..n : o[i] = o[j] => i = j} : n \in 0..MaxGraph}

\* vpc = VPC(...); vpc._services[svc.instance_name] = svc for each svc of
\* the order, as the describe_* methods store a resource
Populate(order) ==
    FoldSeq(LAMBDA v, svc : SetService(v, svc.instance_name, svc),
            NewVPC, order)

\* Two graphs of the same resources; reorder is order or another order of it.
GraphArgs ==
    UNION {{[fn |-> "to_graphviz", order |-> o, reorder |-> q] :
                q \in {r \in Orders : Range(r) = Range(o)}} : o \in Orders}

\* to_graphviz of each of the two graphs
CallToGraphviz ==
    /\ arg.fn = "to_graphviz"
    /\ res = Idle
    /\ res' = [fn |-> "to_graphviz",
               value |-> to_graphviz(Populate(arg.order)),
               other |-> to_graphviz(Populate(arg.reorder))]
    /\ UNCHANGED <<vpc, step, pc, out, arg>>

\* The names of the resources node() and edge() are called on together:
\* names are the caller's choice for an auto scaling group.
MaxNameLen == 2

NodeNames ==
    UNION {[1..n -> {"-", "_", ".", "a"}] : n \in 1..MaxNameLen}

NodeArgs ==
    {[fn |-> "node",
      source |-> ServiceInstance(NoDetails, "ASG", a, ""),
      target |-> ServiceInstance(NoDetails, "ASG", b, "")] :
        a, b \in NodeNames}

\* node(source), node(target) and edge(source, target, vpc)
CallNode ==
    /\ arg.fn = "node"
    /\ res = Idle
    /\ res' = [fn |-> "node",
               source |-> node(arg.source),
               target |-> node(arg.target),
               edge |-> edge(arg.source, arg.target, NewVPC)]
    /\ UNCHANGED <<vpc, step, pc, out, arg>>

FnArgs ==
    GraphvizIdArgs \cup EqArgs \cup EdgeArgs \cup GraphArgs \cup NodeArgs

FnInit ==
    /\ vpc = NewVPC
    /\ step = 0
    /\ pc = "scan"
    /\ out = NoOutput
    /\ arg \in FnArgs
    /\ res = Idle

FnNext ==
    \/ CallGraphvizId
    \/ CallEq
    \/ CallEdge
    \/ CallToGraphviz
    \/ CallNode

FnSpec == FnInit /\ [][FnNext]_vars

\* ------------------------------------------------------------------------
\* The properties of the specification, stated on the run.

\* to_graphviz has run and written its output.
Rendered == pc = "done" /\ out.exc = ""

\* The node lists of the four shared regions, of the zone clusters and of
\* the subnet clusters of an output.
SharedLists(o) ==
    <<o.route53_services, o.top_services, o.bottom_services, o.nw_services>>

ZoneLists(o) ==
    Concat([i \in 1..Len(o.azs) |->
               <<o.azs[i].top_services, o.azs[i].bottom_services>>])

SubnetLists(o) ==
    Concat([i \in 1..Len(o.azs) |->
               [j \in 1..Len(o.azs[i].subnets) |->
                   o.azs[i].subnets[j].services]])

\* The number of lists of an output that hold the node statement n.
Locations(o, n) ==
    LET all == SharedLists(o) \o ZoneLists(o) \o SubnetLists(o)
    IN Cardinality({i \in 1..Len(all) : n \in Range(all[i])})

InShared(o, n) == \E i \in 1..4 : n \in Range(SharedLists(o)[i])

\* k is the source or the target of a relation.
IsEndpoint(v, k) == \E r \in v.relations : r[1] = k \/ r[2] = k

\* The zones and the subnets whose membership lists k.
ZonesOf(v, k) == {z \in DOMAIN v.azs : k \in Range(v.azs[z].service_ids)}

SubnetsOf(v, k) == {s \in DOMAIN v.subnets : k \in Range(v.subnets[s])}

\* The number of entries k has in the subnet memberships.
SubnetEntries(v, k) ==
    Cardinality(UNION {{<<s, i>> : i \in {j \in 1..Len(v.subnets[s]) :
                                             v.subnets[s][j] = k}} :
                          s \in DOMAIN v.subnets})

\* The ids the zone and subnet memberships list.
MemberIds(v) ==
    UNION {Range(v.azs[z].service_ids) : z \in DOMAIN v.azs}
        \cup UNION {Range(v.subnets[s]) : s \in DOMAIN v.subnets}

\* The relations whose two ends the resource map holds, and the edge() of
\* one of them.
RoutedRelations(v) ==
    {r \in v.relations : Contains(v, r[1]) /\ Contains(v, r[2])}

EdgeOf(v, r) == edge(GetItem(v, r[1]), GetItem(v, r[2]), v)

Invisible(e) ==
    /\ HasAttr(e.attrs, A_constraint) /\ AttrOf(e.attrs, A_constraint) = V_False
    /\ HasAttr(e.attrs, A_style) /\ AttrOf(e.attrs, A_style) = V_invis

Plain(e) == ~HasAttr(e.attrs, A_constraint) /\ ~HasAttr(e.attrs, A_style)

\* The connected resources of a type the resource map holds.
ConnectedOfType(v, o, t) ==
    {x \in Range(services(v)) : x.service_name = t /\ id(x) \in o.connected}

\* The edges to_graphviz appends for the (ENI, RTB) pairs: raw, after the
\* entries of the relations.
Synthesized(v, o) ==
    SubSeq(o.raw, Cardinality(RoutedRelations(v)) + 1, Len(o.raw))

\* C1: to_graphviz places the node statement of every resource in at most
\* one of the lists it fills (the four shared regions, the top and bottom
\* list of each zone cluster, the list of each subnet cluster).
C1_OnePlace ==
    Rendered =>
        \A x \in Range(services(vpc)) : Locations(out, node(x)) <= 1

\* C2, as the specification states it: every resource that is an endpoint
\* of a relation and is not contained has a node statement in a shared
\* region, whatever its type.
C2_Original ==
    Rendered =>
        \A x \in Range(services(vpc)) :
            (IsEndpoint(vpc, id(x))
                /\ id(x) \notin out.single_subnet \cup out.single_az)
            => InShared(out, node(x))

\* C2: a resource that is connected and not contained has a node statement
\* in a shared region exactly when its type is none of SUBN, EC2, NAT and
\* ENI (the types of the subnet level and below that are neither a bottom
\* nor a side-network type).
C2_SharedByType ==
    Rendered =>
        \A x \in Range(services(vpc)) :
            (id(x) \in out.connected
                /\ id(x) \notin out.single_subnet \cup out.single_az)
            => (InShared(out, node(x))
                    <=> x.service_name \notin {"SUBN", "EC2", "NAT", "ENI"})

C2_Witness ==
    /\ Rendered
    /\ \E x \in Range(services(vpc)) :
          /\ x.service_name = "SG"
          /\ IsEndpoint(vpc, id(x))
          /\ id(x) \notin out.single_subnet \cup out.single_az
          /\ node(x) \in Range(out.nw_services)
    /\ \E y \in Range(services(vpc)) :
          /\ y.service_name = "SUBN"
          /\ IsEndpoint(vpc, id(y))
          /\ id(y) \notin out.single_subnet \cup out.single_az
          /\ ~InShared(out, node(y))

\* C3: an id is single_subnet exactly when exactly one subnet's membership
\* lists it, and single_az exactly when exactly one zone's membership lists
\* it and it is not single_subnet; the two sets are disjoint.
C3_Classification ==
    Rendered =>
        /\ \A k \in MemberIds(vpc) :
              /\ k \in out.single_subnet
                    <=> Cardinality(SubnetsOf(vpc, k)) = 1
              /\ k \in out.single_az
                    <=> (Cardinality(ZonesOf(vpc, k)) = 1
                            /\ k \notin out.single_subnet)
        /\ out.single_subnet \cap out.single_az = {}

C5_LevelRule ==
    Rendered =>
        \A r \in RoutedRelations(vpc) :
            LET s == GetItem(vpc, r[1])
                t == GetItem(vpc, r[2])
                e == EdgeOf(vpc, r)
            IN s.service_name # "SUBN" =>
                /\ e \in Range(out.edges)
                /\ level(s.service_name) > level(t.service_name)
                      => Invisible(e)
                /\ (/\ level(s.service_name) <= level(t.service_name)
                    /\ ~(cost_per_month(s) > 0 /\ t.service_name = "SG")
                    /\ ~(s.service_name = "ENI" /\ t.service_name = "RTB"))
                      => Plain(e)

C5_Witness ==
    /\ Rendered
    /\ \E r \in RoutedRelations(vpc) :
          /\ level(GetItem(vpc, r[1]).service_name)
                > level(GetItem(vpc, r[2]).service_name)
          /\ EdgeOf(vpc, r) \in Range(out.edges)
          /\ Invisible(EdgeOf(vpc, r))
    /\ \E r \in RoutedRelations(vpc) :
          /\ level(GetItem(vpc, r[1]).service_name)
                = level(GetItem(vpc, r[2]).service_name)
          /\ EdgeOf(vpc, r) \in Range(out.edges)
          /\ Plain(EdgeOf(vpc, r))

\* C6: the statement of a relation to a security group carries
\* constraint=False and style=invis when the monthly cost of the source is
\* above zero, and no constraint and no style when that cost is zero and
\* the source is not at a higher level than SG.
C6_CostRule ==
    Rendered =>
        \A r \in RoutedRelations(vpc) :
            LET s == GetItem(vpc, r[1])
                t == GetItem(vpc, r[2])
                e == EdgeOf(vpc, r)
            IN (t.service_name = "SG" /\ s.service_name # "SUBN") =>
                /\ e \in Range(out.edges)
                /\ cost_per_month(s) > 0 => Invisible(e)
                /\ (cost_per_month(s) = 0
                        /\ level(s.service_name) <= level("SG"))
                      => Plain(e)

C6_Witness ==
    /\ Rendered
    /\ \E r \in RoutedRelations(vpc) :
          /\ GetItem(vpc, r[2]).service_name = "SG"
          /\ cost_per_month(GetItem(vpc, r[1])) > 0
          /\ EdgeOf(vpc, r) \in Range(out.edges)
          /\ Invisible(EdgeOf(vpc, r))
    /\ \E r \in RoutedRelations(vpc) :
          /\ GetItem(vpc, r[2]).service_name = "SG"
          /\ cost_per_month(GetItem(vpc, r[1])) = 0
          /\ EdgeOf(vpc, r) \in Range(out.edges)
          /\ Plain(EdgeOf(vpc, r))

\* C7: to_graphviz appends one statement per pair of a connected ENI and a
\* connected RTB of the resource map, and no other; the statement of a pair
\* carries no weight, constraint or style when the relation (ENI, RTB) is
\* in the relation set, and weight=10 and style=invis when it is not.
C7_CrossProduct ==
    Rendered =>
        LET synth == Synthesized(vpc, out)
            enis == ConnectedOfType(vpc, out, "ENI")
            rtbs == ConnectedOfType(vpc, out, "RTB")
        IN /\ Len(synth) = Cardinality(enis) * Cardinality(rtbs)
           /\ \A e \in enis, r \in rtbs :
                LET hits == {i \in 1..Len(synth) :
                                /\ synth[i].kind = "edge"
                                /\ synth[i].source = graphviz_id(id(e))
                                /\ synth[i].target = graphviz_id(id(r))}
                IN /\ Cardinality(hits) = 1
                   /\ \A i \in hits :
                        /\ synth[i] \in Range(out.edges)
                        /\ IF <<id(e), id(r)>> \in vpc.relations
                           THEN Plain(synth[i])
                                   /\ ~HasAttr(synth[i].attrs, A_weight)
                           ELSE /\ HasAttr(synth[i].attrs, A_weight)
                                /\ AttrOf(synth[i].attrs, A_weight) = V_10
                                /\ HasAttr(synth[i].attrs, A_style)
                                /\ AttrOf(synth[i].attrs, A_style) = V_invis

C7_Witness ==
    /\ Rendered
    /\ Cardinality(ConnectedOfType(vpc, out, "ENI")) = 2
    /\ Cardinality(ConnectedOfType(vpc, out, "RTB")) = 1
    /\ Len(Synthesized(vpc, out)) = 2
    /\ \E i, j \in 1..Len(Synthesized(vpc, out)) :
          /\ Plain(Synthesized(vpc, out)[i])
          /\ HasAttr(Synthesized(vpc, out)[j].attrs, A_weight)

\* C8: a relation with an end the resource map does not hold is stored all
\* the same; to_graphviz raises nothing on it and writes no statement for
\* it: the two ends of every statement are resources of the map, and raw
\* has an entry for the routed relations and the (ENI, RTB) pairs only.
C8_AbsentEndpoint ==
    pc = "done" =>
        /\ out.exc = ""
        /\ \A p \in BagToSet(vpc.log) :
              (p[1] # None /\ p[2] # None
                  /\ (~Contains(vpc, p[1]) \/ ~Contains(vpc, p[2])))
              => p \in vpc.relations
        /\ \A e \in Range(out.edges) :
              \E x, y \in Range(services(vpc)) :
                  e.source = graphviz_id(id(x)) /\ e.target = graphviz_id(id(y))
        /\ Len(out.raw) =
              Cardinality(RoutedRelations(vpc))
                  + Cardinality(ConnectedOfType(vpc, out, "ENI"))
                      * Cardinality(ConnectedOfType(vpc, out, "RTB"))

C8_Witness ==
    /\ Rendered
    /\ out.edges # <<>>
    /\ \E r \in vpc.relations : ~Contains(vpc, r[1]) \/ ~Contains(vpc, r[2])

\* C9: the relation set is the set of the pairs _add_relation was called
\* with (those without a None), one entry a pair however often it was
\* inserted, (a, b) and (b, a) two entries.
C9_Idempotent ==
    vpc.relations = {p \in BagToSet(vpc.log) : p[1] # None /\ p[2] # None}

C9_Witness ==
    /\ \E p \in BagToSet(vpc.log) :
          CopiesIn(p, vpc.log) >= 2 /\ p \in vpc.relations
    /\ \E q \in vpc.relations :
          q[1] # q[2] /\ <<q[2], q[1]>> \in vpc.relations

Sanitized(s) ==
    LET kept == SelectSeq(s, LAMBDA c : c # ".")
    IN [i \in 1..Len(kept) |->
           IF kept[i] \in {" ", "-", "/"} THEN "_" ELSE kept[i]]

\* C19: graphviz_id turns every space, hyphen and slash into an underscore,
\* takes out every period and keeps every other character; its result has
\* no space, hyphen, slash or period, and graphviz_id of it is itself.
C19_Sanitize ==
    res.fn = "graphviz_id" =>
        /\ res.value = Sanitized(arg.s)
        /\ \A i \in 1..Len(res.value) : res.value[i] \notin {" ", "-", "/", "."}
        /\ graphviz_id(res.value) = res.value

C19_Witness ==
    /\ res.fn = "graphviz_id"
    /\ \E i, j, k \in 1..Len(arg.s) :
          arg.s[i] = "." /\ arg.s[j] \in {" ", "-", "/"} /\ arg.s[k] = "a"
    /\ Len(res.value) = Len(arg.s) - 1

\* C20: two resources are equal exactly when their service_name and their
\* instance_name match, whatever their variant, and equal resources have
\* a hash, the same one.
C20_Equality ==
    res.fn = "eq" =>
        /\ res.value <=> (/\ arg.self.service_name = arg.other.service_name
                          /\ arg.self.instance_name = arg.other.instance_name)
        /\ res.value =>
              /\ res.hash_self.exc = ""
              /\ res.hash_self = res.hash_other

\* C11: for a resource whose type the level list does not hold, edge() and
\* to_graphviz complete: the edge is rendered, with its colour and without
\* the styling of a backward link, and the rendering raises nothing.
C11_Incomparable ==
    /\ (/\ res.fn = "edge"
        /\ arg.source.service_name # "SUBN"
        /\ \/ level(arg.source.service_name) = NoLevel
           \/ level(arg.target.service_name) = NoLevel)
       => /\ res.value.kind = "edge"
          /\ HasAttr(res.value.attrs, A_color)
          /\ ~HasAttr(res.value.attrs, A_constraint)
    /\ (/\ res.fn = "to_graphviz"
        /\ \E i \in 1..Len(arg.order) :
               level(arg.order[i].service_name) = NoLevel)
       => res.value.exc = ""

\* C12: to_graphviz leaves the VPC graph as it found it: the resource map,
\* the relation set, the zone map and the subnet-membership map, with the
\* keys of each, are after the rendering what they were before it.
C12_Frame == [][pc' = "done" => vpc' = vpc]_vars

\* What the template prints of an output: the node statements of each
\* region, the clusters, the rank comments and the edge statements.
TextOf(o) ==
    <<o.exc, o.route53_services, o.top_services, o.azs, o.bottom_services,
      o.nw_services, o.svc_types, o.edges>>

\* C13: two graphs holding the same resources, filled in different orders,
\* are rendered to the same text.
C13_OrderIndependent ==
    res.fn = "to_graphviz" => TextOf(res.value) = TextOf(res.other)

\* The edges of raw that are statements, as a bag.
Statements(raw) ==
    LET RECURSIVE bag(_)
        bag(r) == IF r = <<>> THEN EmptyBag
                  ELSE IF Head(r).kind = "None" THEN bag(Tail(r))
                  ELSE bag(Tail(r)) (+) SetToBag({Head(r)})
    IN bag(raw)

\* C14: the edge list is in ascending order of the text of its statements,
\* and holds the statements of the relations and of the synthesized pairs,
\* the suppressed ones removed and no other.
C14_EdgeOrder ==
    Rendered =>
        /\ \A i \in 1..(Len(out.edges) - 1) :
              ~StrLess(EdgeText(out.edges[i + 1]), EdgeText(out.edges[i]))
        /\ \A i \in 1..Len(out.edges) : out.edges[i].kind = "edge"
        /\ Statements(out.edges) = Statements(out.raw)

\* A rendering whose sort moved a statement, with a suppressed edge and a
\* synthesized one among the raw edges.
C14_Witness ==
    /\ Rendered
    /\ Len(out.edges) >= 3
    /\ \E i \in 1..Len(out.raw) : out.raw[i].kind = "None"
    /\ Len(Synthesized(vpc, out)) >= 1
    /\ \E i, j \in 1..Len(out.raw) :
          /\ i < j
          /\ out.raw[i].kind = "edge"
          /\ out.raw[j].kind = "edge"
          /\ StrLess(EdgeText(out.raw[j]), EdgeText(out.raw[i]))

\* C15: the edge list holds at most one statement for a pair (source,
\* target).
C15_OneStatement ==
    Rendered =>
        \A i, j \in 1..Len(out.edges) :
            (/\ out.edges[i].source = out.edges[j].source
             /\ out.edges[i].target = out.edges[j].target) => i = j

\* The subnets of the graph that are the source of a routed relation.
SubnetSources(v) ==
    {r \in RoutedRelations(v) : GetItem(v, r[1]).service_name = "SUBN"}

\* C16: no statement of the edge list starts at a subnet, and edge() gives
\* no statement for a subnet source, whatever the target.
C16_NoSubnetSource ==
    Rendered =>
        /\ \A i \in 1..Len(out.edges) :
              \A x \in Range(services(vpc)) :
                  x.service_name = "SUBN" =>
                      out.edges[i].source # graphviz_id(id(x))
        /\ \A r \in SubnetSources(vpc) :
              /\ EdgeOf(vpc, r).kind = "None"
              /\ EdgeOf(vpc, r) \in Range(out.raw)
              /\ \A x \in Range(services(vpc)) :
                    edge(GetItem(vpc, r[1]), x, vpc).kind = "None"

\* A rendering of a graph with a relation from a subnet, and with edges.
C16_Witness ==
    /\ Rendered
    /\ SubnetSources(vpc) # {}
    /\ Len(out.edges) >= 1
    /\ \E r \in SubnetSources(vpc) : GetItem(vpc, r[2]).service_name = "RTB"

\* The octets of the address of the subnet of a subnet cluster, as numbers.
Octets(v, sn) ==
    LET ip == Split(GetItem(v, sn.id).details.cidr, "/")[1]
        parts == Split(ip, ".")
    IN [i \in 1..Len(parts) |-> ToInt(parts[i])]

\* The address of the subnet of a subnet cluster, as text.
AddressText(v, sn) == Split(GetItem(v, sn.id).details.cidr, "/")[1]

\* C17: the zone clusters are one per zone, in ascending order of zone
\* name; in each, the subnet clusters are the subnets of the zone, in
\* ascending order of the numbers of their address octets.
C17_ClusterOrder ==
    Rendered =>
        /\ {out.azs[i].label : i \in 1..Len(out.azs)} = DOMAIN vpc.azs
        /\ \A i \in 1..(Len(out.azs) - 1) :
              StrLess(out.azs[i].label, out.azs[i + 1].label)
        /\ \A i \in 1..Len(out.azs) :
              LET sns == out.azs[i].subnets
              IN /\ Len(sns) = Len(vpc.azs[out.azs[i].label].subnet_ids)
                 /\ {sns[j].id : j \in 1..Len(sns)} =
                        Range(vpc.azs[out.azs[i].label].subnet_ids)
                 /\ \A j \in 1..(Len(sns) - 1) :
                       ~IntsLess(Octets(vpc, sns[j + 1]), Octets(vpc, sns[j]))

\* A rendering of two zones, one with two subnets whose order by number is
\* not their order by text.
C17_Witness ==
    /\ Rendered
    /\ Len(out.azs) >= 2
    /\ \E i \in 1..Len(out.azs) :
          /\ Len(out.azs[i].subnets) = 2
          /\ StrLess(AddressText(vpc, out.azs[i].subnets[2]),
                     AddressText(vpc, out.azs[i].subnets[1]))

\* The subnet clusters of an output that hold node statement n, by subnet id.
SubnetClustersOf(o, n) ==
    UNION {{o.azs[i].subnets[j].id : j \in {j \in 1..Len(o.azs[i].subnets) :
                n \in Range(o.azs[i].subnets[j].services)}} :
           i \in 1..Len(o.azs)}

\* The zone clusters of an output that hold n in their top or bottom list.
ZoneClustersOf(o, n) ==
    {o.azs[i].label : i \in {i \in 1..Len(o.azs) :
        n \in Range(o.azs[i].top_services)
                \cup Range(o.azs[i].bottom_services)}}

\* The subnets, listed by a zone, whose membership holds k.
OwningSubnets(v, k) ==
    {s \in SubnetsOf(v, k) :
        \E z \in DOMAIN v.azs : s \in Range(v.azs[z].subnet_ids)}

IsConnected(v, o, k) == k \in o.connected \/ id(GetItem(v, k)) \in o.connected

C21_KeyIsId ==
    /\ \A i \in 1..Len(vpc._services) :
          vpc._services[i].key = id(vpc._services[i].svc)
    /\ Rendered =>
          \A x \in Range(services(vpc)) :
              /\ id(x) \in out.connected
                    <=> \E i \in 1..Len(vpc._services) :
                            /\ vpc._services[i].svc = x
                            /\ vpc._services[i].key \in out.connected
              /\ id(x) \in out.single_subnet \cup out.single_az
                    <=> \E i \in 1..Len(vpc._services) :
                            /\ vpc._services[i].svc = x
                            /\ vpc._services[i].key
                                  \in out.single_subnet \cup out.single_az

\* C22: two resources with distinct ids have distinct node identifiers, so
\* that the endpoints of the edge between them name one node statement
\* each.
C22_DistinctNodes ==
    (res.fn = "node" /\ id(arg.source) # id(arg.target)) =>
        /\ res.source.id # res.target.id
        /\ res.edge.source = res.source.id
        /\ res.edge.target = res.target.id
        /\ res.edge.source # res.target.id
        /\ res.edge.target # res.source.id

=============================================================================
